---- MODULE Spec2Model ----
(***************************************************************************)
(* PathSeeker: the adaptive recursive scan engine of src/main.go (the      *)
(* second, current main() of the file: lines 488-985).                     *)
(*                                                                         *)
(* Strings are sequences of one-character strings, so that the prefix,     *)
(* suffix and length computations of the source are computed, not assumed. *)
(* A response body is an abstract content identity; its SHA-1 digest is a  *)
(* string that is different for different bodies and never empty.          *)
(***************************************************************************)
EXTENDS Naturals, Integers, Sequences, FiniteSets, TLC

(***************************************************************************)
(* Bounds of the model.                                                    *)
(***************************************************************************)
\* number of worker goroutines the model can start (-c)
MaxConcurrency == 2
\* queue slots per worker; the source uses 500 (main.go:593)
QueueFactor == 1
\* directory levels of the target that hold content
MaxSiteDepth == 3
\* largest error tolerance (-e) of a run
MaxTolerance == 3

(***************************************************************************)
(* strings.* and path.* of the Go standard library, on character sequences *)
(***************************************************************************)
HasPrefix(s, p) == Len(p) <= Len(s) /\ SubSeq(s, 1, Len(p)) = p

HasSuffix(s, p) == Len(p) <= Len(s) /\ SubSeq(s, Len(s) - Len(p) + 1, Len(s)) = p

TrimPrefix(s, p) == IF HasPrefix(s, p) THEN SubSeq(s, Len(p) + 1, Len(s)) ELSE s

TrimSuffix(s, p) == IF HasSuffix(s, p) THEN SubSeq(s, 1, Len(s) - Len(p)) ELSE s

RECURSIVE TrimRight(_, _)
TrimRight(s, c) ==
    IF s # <<>> /\ s[Len(s)] = c THEN TrimRight(SubSeq(s, 1, Len(s) - 1), c) ELSE s

\* strings.SplitN(s, "/", 2)[0]: the part of s before its first "/"
FirstPart(s) ==
    IF \E i \in 1..Len(s) : s[i] = "/"
    THEN LET i == CHOOSE i \in 1..Len(s) : s[i] = "/" /\ \A j \in 1..(i - 1) : s[j] # "/"
         IN  SubSeq(s, 1, i - 1)
    ELSE s

\* path.Clean on paths without "." and ".." elements: duplicate slashes are
\* collapsed and a trailing slash is removed, except from the root "/".
\* (CHOOSE r \in {f(x) : x \in {e}} : TRUE is f(e) with e evaluated once.)
Collapse(s) ==
    LET kept[i \in 0..Len(s)] ==
            IF i = 0 THEN <<>>
            ELSE IF i > 1 /\ s[i] = "/" /\ s[i - 1] = "/" THEN kept[i - 1]
            ELSE Append(kept[i - 1], s[i])
    IN  kept[Len(s)]

Clean(s) ==
    CHOOSE r \in {IF Len(c) > 1 /\ c[Len(c)] = "/" THEN SubSeq(c, 1, Len(c) - 1) ELSE c :
                  c \in {Collapse(s)}} : TRUE

\* path.Join: the non-empty elements joined by "/", then cleaned; "" if none
RECURSIVE JoinElems(_)
JoinElems(elems) ==
    IF elems = <<>> THEN <<>>
    ELSE LET rest == JoinElems(Tail(elems))
         IN  IF Head(elems) = <<>> THEN rest
             ELSE IF rest = <<>> THEN Head(elems)
             ELSE Head(elems) \o <<"/">> \o rest

Join(elems) ==
    CHOOSE r \in {IF j = <<>> THEN <<>> ELSE Clean(j) : j \in {JoinElems(elems)}} : TRUE

(***************************************************************************)
(* net/url: an absolute URL "scheme://host/path" splits into its origin    *)
(* "scheme://host" and its path (url.Parse(u).Path; u.String() joins them) *)
(***************************************************************************)
SchemeEnd(u) == CHOOSE i \in 1..Len(u) :
                   /\ i + 2 <= Len(u)
                   /\ SubSeq(u, i, i + 2) = <<":", "/", "/">>
                   /\ \A j \in 1..(i - 1) : u[j] # ":"

PathStart(u) ==
    CHOOSE r \in
        {IF \E i \in from..Len(u) : u[i] = "/"
         THEN CHOOSE i \in from..Len(u) : u[i] = "/" /\ \A j \in from..(i - 1) : u[j] # "/"
         ELSE Len(u) + 1 : from \in {SchemeEnd(u) + 3}} : TRUE

UrlOrigin(u) == SubSeq(u, 1, PathStart(u) - 1)

UrlPath(u) == SubSeq(u, PathStart(u), Len(u))

\* buildURL(base, prefix, word, withSlash)
buildURL(b, prefix, word, withSlash) ==
    LET p == TrimSuffix(UrlPath(b), <<"/">>)
        pth(joined) == IF withSlash
                       THEN (IF HasSuffix(joined, <<"/">>) THEN joined ELSE joined \o <<"/">>)
                       ELSE TrimSuffix(joined, <<"/">>)
    IN  CHOOSE u \in {UrlOrigin(b) \o pth(joined) :
                         joined \in {Join(elems) : elems \in {<<p \o <<"/">>, prefix, word>>}}} :
               TRUE

\* normalizeOutputURL(u)
normalizeOutputURL(u) ==
    IF HasSuffix(u, <<"/">>) /\ ~HasSuffix(u, <<":", "/", "/">>)
    THEN TrimRight(u, "/")
    ELSE u

(***************************************************************************)
(* The run's inputs                                                        *)
(***************************************************************************)
\* -u: the base URL "h://t/"
base == <<"h", ":", "/", "/", "t", "/">>

basePath == UrlPath(base)

\* the wordlists of the runs that are checked: one word; two words of equal
\* length, a word and a longer one, a repeated word; three words
OneWord == { << <<"b">> >> }

TwoWords == { << <<"b">>, <<"c">> >>,
              << <<"b">>, <<"b", "b">> >>,
              << <<"b">>, <<"b">> >> }

\* a wordlist with a word of two segments
DeepWords == { << <<"b", "/", "b">>, <<"b">> >> }

ThreeWords == { << <<"b">>, <<"c">>, <<"d">> >> }

\* a wordlist whose first word is a nonce word of the precheck
NonceWords == { << <<"t", "1">>, <<"c">> >> }

\* the nonce words of preCheckReflective ("test123xyz", "random456abc", "check789def")
testWords == << <<"t", "1">>, <<"t", "2">>, <<"t", "3">> >>

\* what the target can answer: a status and a body, or no answer at all
Statuses == {200, 404, 500}

Bodies == {"X", "Y"}

Answers == [status : Statuses, body : Bodies]

NoAnswer == [status |-> 0, body |-> ""]

\* the target serves content under /b, siteDepth levels deep, and at /c, and
\* answers the nonce paths right under the root as it likes; any other path is
\* a plain 404
siteRoot == <<"/", "b">>

siblingRoot == <<"/", "c">>

Segments(pth) == Len(SelectSeq(pth, LAMBDA c : c = "/"))

Workers == 1..MaxConcurrency

VARIABLES
    words, maxDepth, recursive, excluded, concurrency,   \* flags of the run
    siteDepth, catchAll, down,                           \* the target
    mainPc, seedIdx,                                     \* main goroutine and closer
    testIdx, testResults,                                \* the root precheck's loop
    reqJobs, closed,                                     \* the job channel
    seen, hits, completed, totalTasks, droppedTasks, pending,
    hashBest, contentAncestors,
    wk,                                                  \* the worker goroutines
    gets, log,                                           \* history: GETs issued, debug log
    prechecks,                                           \* history: verdicts per prefix
    written                                              \* the lines written to the output

cfgVars == <<words, maxDepth, recursive, excluded, concurrency, siteDepth, catchAll, down>>

probeVars == <<testIdx, testResults>>

vars == <<words, maxDepth, recursive, excluded, concurrency, siteDepth, catchAll, down, mainPc,
          seedIdx, testIdx, testResults, reqJobs, closed, seen, hits, completed, totalTasks, droppedTasks,
          pending, hashBest, contentAncestors, wk, gets, log, prechecks, written>>

Live(pth) ==
    \/ /\ pth = siteRoot \/ HasPrefix(pth, siteRoot \o <<"/">>)
       /\ Segments(pth) <= siteDepth
    \/ pth = siblingRoot
    \/ \E k \in 1..Len(testWords) : pth = <<"/">> \o testWords[k]

\* a catch-all target answers every path below /b with the same 200; a target
\* that is down answers nothing
TargetResponses(url) ==
    UNION {IF down THEN {NoAnswer}
           ELSE IF catchAll /\ HasPrefix(pth, siteRoot \o <<"/">>)
           THEN {[status |-> 200, body |-> "X"]}
           ELSE IF Live(pth)
           THEN Answers \cup {NoAnswer}
           ELSE {[status |-> 404, body |-> "X"]} : pth \in {UrlPath(url)}}

\* fmt.Sprintf("%x", sha1(body)): never empty, different for different bodies
Sha1Hex(body) == "h" \o body

\* strconv.Atoi on a field: an optional sign and decimal digits, or an error
DigitOf ==
    ("0" :> 0) @@ ("1" :> 1) @@ ("2" :> 2) @@ ("3" :> 3) @@ ("4" :> 4) @@
    ("5" :> 5) @@ ("6" :> 6) @@ ("7" :> 7) @@ ("8" :> 8) @@ ("9" :> 9)

AtoiOk(s) ==
    \E d \in {IF s # <<>> /\ s[1] \in {"+", "-"} THEN Tail(s) ELSE s} :
        d # <<>> /\ \A i \in 1..Len(d) : d[i] \in DOMAIN DigitOf

Atoi(s) ==
    LET d == IF s[1] \in {"+", "-"} THEN Tail(s) ELSE s
        val[i \in 0..Len(d)] == IF i = 0 THEN 0 ELSE 10 * val[i - 1] + DigitOf[d[i]]
    IN  IF s[1] = "-" THEN 0 - val[Len(d)] ELSE val[Len(d)]

\* strings.FieldsFunc(statuses, r == ',' || r == ' ' || r == '\t'): the maximal
\* runs of other characters
FieldsFunc(s) ==
    LET IsSep(c) == c \in {",", " ", "\t"}
        \* <<fields closed so far, field being read>>
        at[i \in 0..Len(s)] ==
            IF i = 0 THEN <<<<>>, <<>>>>
            ELSE IF IsSep(s[i])
                 THEN (IF at[i - 1][2] = <<>> THEN at[i - 1]
                       ELSE <<Append(at[i - 1][1], at[i - 1][2]), <<>>>>)
                 ELSE <<at[i - 1][1], Append(at[i - 1][2], s[i])>>
        last == at[Len(s)]
    IN  IF last[2] = <<>> THEN last[1] ELSE Append(last[1], last[2])

\* lines 467-477
parseExcluded(statuses) ==
    IF statuses = <<>> THEN {}
    ELSE LET split == FieldsFunc(statuses)
         IN  {Atoi(split[k]) : k \in {j \in 1..Len(split) : AtoiOk(split[j])}}

\* line 509: the value of -se, "404" when the flag is not given
NotGiven == [given |-> FALSE, value |-> <<>>]

Given(value) == [given |-> TRUE, value |-> value]

\* a flag whose default is the empty list
statusExcludeStrNoDefault(se) == se.value

statusExcludeStr(se) == IF se.given THEN se.value ELSE <<"4", "0", "4">>

\* the -se values of the runs: the default, and explicit lists in which 200 is
\* excluded too, with a field that is not a number, and 404 alone
SeDefault == {NotGiven}

SeGiven == {Given(<<"4", "0", "4">>),
            Given(<<"2", "0", "0", ",", "4", "0", "4">>),
            Given(<<"4", "0", "4", ",", " ", "x", " ", "2", "0", "0">>)}

ExcludedSets == {parseExcluded(statusExcludeStr(se)) : se \in SeDefault \cup SeGiven}

maxQueueSize == concurrency * QueueFactor

Started(w) == w <= concurrency

NoTask == [base |-> <<>>, prefix |-> <<>>, word |-> <<>>, depth |-> 0,
           withSlash |-> FALSE, errorCount |-> 0]

reqTask(b, prefix, word, depth, withSlash, errorCount) ==
    [base |-> b, prefix |-> prefix, word |-> word, depth |-> depth,
     withSlash |-> withSlash, errorCount |-> errorCount]

Idle == [pc |-> "idle", t |-> NoTask, u |-> <<>>, code |-> 0, sum |-> "",
         newErrorCount |-> 0, shouldRecurse |-> FALSE, i |-> 0]

\* the state after lines 594-609, for the flags and the target of one run
Start(run) ==
    /\ words = run.words
    /\ maxDepth = run.maxDepth
    /\ recursive = run.recursive
    /\ excluded = parseExcluded(statusExcludeStr(run.se))
    /\ concurrency = run.concurrency
    /\ siteDepth = run.siteDepth
    /\ catchAll = run.catchAll
    /\ down = run.down
    /\ mainPc = "precheck"
    /\ seedIdx = 0
    /\ testIdx = 1
    /\ testResults = <<>>
    /\ reqJobs = <<>>
    /\ closed = FALSE
    /\ seen = {}
    /\ hits = 0
    /\ completed = 0
    /\ totalTasks = 0
    /\ droppedTasks = 0
    /\ pending = 0
    /\ hashBest = <<>>
    /\ contentAncestors = <<>>
    /\ wk = [w \in Workers |-> Idle]
    /\ gets = <<>>
    /\ log = <<>>
    /\ prechecks = <<>>
    /\ written = <<>>

\* the runs that are checked: every flag combination on a chain (one word),
\* recursive runs with tolerance 1 and 2 on the wider wordlists, and runs
\* without -r on two words; every flag combination on a target that is down;
\* recursive runs with an explicit exclusion list; and recursive runs on a
\* wordlist with a word of two segments
Runs ==
    [words : OneWord, maxDepth : 0..MaxTolerance, recursive : BOOLEAN,
     se : SeDefault, concurrency : 1..MaxConcurrency,
     siteDepth : {MaxSiteDepth}, catchAll : BOOLEAN, down : {FALSE}]
    \cup
    [words : TwoWords \cup ThreeWords, maxDepth : 1..2, recursive : {TRUE},
     se : SeDefault, concurrency : 1..MaxConcurrency,
     siteDepth : {MaxSiteDepth - 1}, catchAll : BOOLEAN, down : {FALSE}]
    \cup
    [words : TwoWords, maxDepth : {1}, recursive : {FALSE},
     se : SeDefault, concurrency : 1..MaxConcurrency,
     siteDepth : {MaxSiteDepth - 1}, catchAll : {FALSE}, down : {FALSE}]
    \cup
    [words : OneWord \cup TwoWords \cup ThreeWords, maxDepth : 0..MaxTolerance,
     recursive : BOOLEAN, se : SeDefault, concurrency : 1..MaxConcurrency,
     siteDepth : {MaxSiteDepth - 1}, catchAll : {FALSE}, down : {TRUE}]
    \cup
    [words : OneWord \cup {<< <<"b">>, <<"c">> >>}, maxDepth : 1..2, recursive : {TRUE},
     se : SeGiven, concurrency : 1..MaxConcurrency,
     siteDepth : {MaxSiteDepth - 1}, catchAll : {FALSE}, down : {FALSE}]
    \cup
    [words : DeepWords, maxDepth : 1..2, recursive : {TRUE},
     se : SeDefault, concurrency : 1..MaxConcurrency,
     siteDepth : {MaxSiteDepth - 1}, catchAll : {FALSE}, down : {FALSE}]
    \cup
    [words : NonceWords, maxDepth : 1..2, recursive : {TRUE},
     se : SeDefault, concurrency : 1..MaxConcurrency,
     siteDepth : {MaxSiteDepth - 1}, catchAll : {FALSE}, down : {FALSE}]

Init == \E run \in Runs : Start(run)

(***************************************************************************)
(* preCheckReflective                                                      *)
(***************************************************************************)
\* the three probes' outcomes, in the order of testWords
testURLs(b, prefix) ==
    << buildURL(b, prefix, testWords[1], FALSE),
       buildURL(b, prefix, testWords[2], FALSE),
       buildURL(b, prefix, testWords[3], FALSE) >>

ProbeOutcomes(b, prefix) ==
    UNION { {<<a1, a2, a3>> : a1 \in TargetResponses(testURL[1]),
                              a2 \in TargetResponses(testURL[2]),
                              a3 \in TargetResponses(testURL[3])} :
            testURL \in {testURLs(b, prefix)} }

\* a probe that goes through the Global Seen Set like the request of a task
probeSeenStored(s, testURL) == s \cup {testURL}

\* lines 711-716: the probe builds its own request and calls client.Do, not
\* requestURL: the Global Seen Set is neither loaded nor stored
probeSeen(s, testURL) == s

\* the Global Seen Set after the three probes of a prefix
probesSeen(s, b, prefix) ==
    CHOOSE after \in
        {probeSeen(probeSeen(probeSeen(s, testURL[1]), testURL[2]), testURL[3]) :
            testURL \in {testURLs(b, prefix)}} : TRUE

\* testResults: one entry per probe that was answered; a 404 carries no hash
testResult(a) ==
    [hash |-> IF a.status # 404 THEN Sha1Hex(a.body) ELSE "", status |-> a.status]

RECURSIVE collectResults(_, _)
collectResults(o, k) ==
    IF k > Len(testWords) THEN <<>>
    ELSE IF o[k] = NoAnswer THEN collectResults(o, k + 1)
    ELSE <<testResult(o[k])>> \o collectResults(o, k + 1)

\* a verdict on the results that are not a plain 404 only
reflectiveVerdictComparable(results) ==
    LET comparable == SelectSeq(results, LAMBDA r : r.status # 404)
    IN  /\ Len(comparable) >= 2
        /\ \A k \in 2..Len(comparable) : comparable[k] = comparable[1]

\* lines 741-775, on the collected results
reflectiveVerdict(results) ==
    IF Len(results) >= 2
    THEN LET firstResult == results[1]
         IN  IF firstResult.status = 404 THEN FALSE
             ELSE \A k \in 2..Len(results) :
                     /\ results[k].status = firstResult.status
                     /\ results[k].hash = firstResult.hash
    ELSE FALSE

\* a precheck that never finds a directory reflective
preCheckNeverReflective(o) == FALSE

preCheckReflective(o) == reflectiveVerdict(collectResults(o, 1))

(***************************************************************************)
(* checkInfiniteLoop, recordPathContent, the ledger update                 *)
(***************************************************************************)
\* a guard that compares the paths as strings, without the "/" suffix
checkInfiniteLoopSubstring(contentHash, currentPath) ==
    IF contentHash = "" THEN FALSE
    ELSE IF contentHash \in DOMAIN contentAncestors
    THEN \E knownPath \in contentAncestors[contentHash] :
            /\ knownPath # currentPath
            /\ \/ HasPrefix(currentPath, knownPath)
               \/ HasPrefix(knownPath, currentPath)
    ELSE FALSE

\* lines 642-669
checkInfiniteLoop(contentHash, currentPath) ==
    IF contentHash = "" THEN FALSE
    ELSE IF contentHash \in DOMAIN contentAncestors
    THEN \E knownPath \in contentAncestors[contentHash] :
            /\ knownPath # currentPath
            /\ \/ HasPrefix(currentPath \o <<"/">>, knownPath \o <<"/">>)
               \/ HasPrefix(knownPath \o <<"/">>, currentPath \o <<"/">>)
    ELSE FALSE

\* a table that records nothing
recordPathContentNever(contentHash, currentPath) == contentAncestors

\* lines 672-686
recordPathContent(contentHash, currentPath) ==
    IF contentHash = "" THEN contentAncestors
    ELSE LET old == IF contentHash \in DOMAIN contentAncestors
                    THEN contentAncestors[contentHash] ELSE {}
         IN  (contentHash :> (old \cup {currentPath})) @@ contentAncestors

\* lines 837-846: the first segment of the normalized URL's path under basePath
branchOf(norm) ==
    CHOOSE branch \in
        {IF rel # <<>> THEN FirstPart(rel) ELSE <<>> :
            rel \in {TrimPrefix(TrimPrefix(pth, basePath), <<"/">>) :
                        pth \in {UrlPath(norm)}}} : TRUE

\* line 848: branch + "|" + sum
keyOf(norm, sum) == <<branchOf(norm), sum>>

\* a ledger whose first holder is never displaced
takesKeyFirst(exists, norm, best) == ~exists

\* a ledger that lets a candidate of equal length take the key
takesKeyOnTie(exists, norm, best) == ~exists \/ Len(norm) <= Len(best)

\* a ledger that lets every candidate take the key
takesKeyAlways(exists, norm, best) == TRUE

\* line 851: does the candidate take the key
takesKey(exists, norm, best) == ~exists \/ Len(norm) < Len(best)

\* a ledger whose last writer holds the key
ledgerUpdateAlways(ledger, key, norm) == (key :> norm) @@ ledger

\* lines 850-854: the ledger after the candidate's update
ledgerUpdate(ledger, key, norm) ==
    IF takesKey(key \in DOMAIN ledger, norm, IF key \in DOMAIN ledger THEN ledger[key] ELSE <<>>)
    THEN (key :> norm) @@ ledger
    ELSE ledger

(***************************************************************************)
(* the error budget (lines 820-832)                                        *)
(***************************************************************************)
\* a budget that a 200 does not reset
newErrorCountNoReset(errorCount, code) == errorCount + 1

\* lines 824-829
newErrorCountOf(errorCount, code) == IF code # 200 THEN errorCount + 1 ELSE 0

\* a tolerance that admits one more consecutive error
withinToleranceInclusive(newErrorCount) == newErrorCount <= maxDepth

\* line 832
withinTolerance(newErrorCount) == newErrorCount < maxDepth

\* a reservation that is not made
pendingAddNothing(p, n) == p

\* lines 915 and 943: pending.Add(n)
pendingAdd(p, n) == p + n

\* a check that never finds the queue near full
queueNeverFull(availableSpace, add) == FALSE

\* line 906: is the batch dropped
queueNearFull(availableSpace, add) == availableSpace < add

\* a filter that never reports a URL as stored
loadedFromNever(seenSet, fullURL) == FALSE

\* line 616: seen.LoadOrStore reports whether the URL was already stored
loadedFrom(seenSet, fullURL) == fullURL \in seenSet

(***************************************************************************)
(* history                                                                 *)
(***************************************************************************)
LogEntry(code, sum, errorCount, verdict) ==
    [code |-> code, sum |-> sum, errorCount |-> errorCount, dedup |-> "none",
     verdict |-> verdict]

Logged(u, entry) == (u :> entry) @@ log

Verdict(u, v) == (u :> [log[u] EXCEPT !.verdict = v]) @@ log

(***************************************************************************)
(* main: root precheck, seeding, the closer goroutine, wg.Wait             *)
(***************************************************************************)
\* the verdicts of the prechecks of a prefix, in the order they were returned
Prechecked(prefix, veto) ==
    (prefix :> (IF prefix \in DOMAIN prechecks THEN prechecks[prefix] ELSE <<>>) \o <<veto>>)
        @@ prechecks

\* lines 705-739 in the call of line 934: one nonce probe of the scan root
MainProbe ==
    /\ mainPc = "precheck"
    /\ testIdx <= Len(testWords)
    /\ \E a \in TargetResponses(testURLs(base, <<>>)[testIdx]) :
          testResults' = IF a = NoAnswer THEN testResults
                         ELSE Append(testResults, testResult(a))
    /\ testIdx' = testIdx + 1
    /\ seen' = probeSeen(seen, testURLs(base, <<>>)[testIdx])
    /\ UNCHANGED <<cfgVars, mainPc, seedIdx, reqJobs, closed, hits, completed,
                   totalTasks, droppedTasks, pending, hashBest, contentAncestors,
                   wk, gets, log, prechecks, written>>

\* lines 741-776 and 934-939: the verdict on the root, and main's return
MainPrecheck ==
    /\ mainPc = "precheck"
    /\ testIdx > Len(testWords)
    /\ \E veto \in {reflectiveVerdict(testResults)} :
          /\ mainPc' = IF veto THEN "returned" ELSE "seed"
          /\ prechecks' = Prechecked(<<>>, veto)
    /\ testResults' = <<>>
    /\ UNCHANGED <<cfgVars, testIdx, written, seedIdx, reqJobs, closed, seen, hits, completed,
                   totalTasks, droppedTasks, pending, hashBest, contentAncestors,
                   wk, gets, log>>

\* lines 942-944
MainSeed ==
    /\ mainPc = "seed"
    /\ pending' = pendingAdd(pending, Len(words))
    /\ totalTasks' = Len(words)
    /\ seedIdx' = 1
    /\ mainPc' = "send"
    /\ UNCHANGED <<cfgVars, probeVars, prechecks, written, reqJobs, closed, seen, hits, completed, droppedTasks,
                   hashBest, contentAncestors, wk, gets, log>>

\* lines 945-947: one send; it blocks while the channel is full
MainSend ==
    /\ mainPc = "send"
    /\ Len(reqJobs) < maxQueueSize
    /\ reqJobs' = Append(reqJobs, reqTask(base, <<>>, words[seedIdx], 0, FALSE, 0))
    /\ seedIdx' = seedIdx + 1
    /\ mainPc' = IF seedIdx = Len(words) THEN "wait" ELSE "send"
    /\ UNCHANGED <<cfgVars, probeVars, prechecks, written, closed, seen, hits, completed, totalTasks, droppedTasks,
                   pending, hashBest, contentAncestors, wk, gets, log>>

\* line 958: pending.Wait() returns
CloserWait ==
    /\ mainPc = "wait"
    /\ pending = 0
    /\ mainPc' = "close"
    /\ UNCHANGED <<cfgVars, probeVars, prechecks, written, seedIdx, reqJobs, closed, seen, hits, completed,
                   totalTasks, droppedTasks, pending, hashBest, contentAncestors,
                   wk, gets, log>>

\* line 958: close(reqJobs)
CloserClose ==
    /\ mainPc = "close"
    /\ closed' = TRUE
    /\ mainPc' = "wgwait"
    /\ UNCHANGED <<cfgVars, probeVars, prechecks, written, seedIdx, reqJobs, seen, hits, completed, totalTasks,
                   droppedTasks, pending, hashBest, contentAncestors, wk, gets, log>>

\* an output that stays empty
emitNothing(order) == <<>>

\* lines 966-975: the holders are written in the order of the map iteration;
\* a URL that is already in seenOut is not written again
emit(order) ==
    LET lines[i \in 0..Len(order)] ==
            IF i = 0 THEN <<>>
            ELSE IF \E k \in 1..Len(lines[i - 1]) : lines[i - 1][k] = hashBest[order[i]]
                 THEN lines[i - 1]
                 ELSE Append(lines[i - 1], hashBest[order[i]])
    IN  lines[Len(order)]

\* the orders in which "for _, u := range hashBest" can visit the keys
RangeOrders ==
    {order \in [1..Cardinality(DOMAIN hashBest) -> DOMAIN hashBest] :
        \A i, j \in DOMAIN order : order[i] = order[j] => i = j}

\* line 959: wg.Wait() returns once every worker has left its loop; lines
\* 965-975: main writes the result set
MainWgWait ==
    /\ mainPc = "wgwait"
    /\ \A w \in Workers : Started(w) => wk[w].pc = "exited"
    /\ mainPc' = "finished"
    /\ \E order \in RangeOrders : written' = emit(order)
    /\ UNCHANGED <<cfgVars, probeVars, prechecks, seedIdx, reqJobs, closed, seen, hits, completed,
                   totalTasks, droppedTasks, pending, hashBest, contentAncestors,
                   wk, gets, log>>

(***************************************************************************)
(* worker                                                                  *)
(***************************************************************************)
\* a hit that goes on to the next level with neither the ledger nor the loop guard
decidedUnchecked(r) ==
    IF ~r.t.withSlash /\ recursive
    THEN LET n == newErrorCountOf(r.t.errorCount, r.code)
             sr == withinTolerance(n)
         IN  [r EXCEPT !.newErrorCount = n, !.shouldRecurse = sr,
                       !.pc = IF sr THEN "precheck" ELSE "completed"]
    ELSE [r EXCEPT !.pc = "completed"]

\* a hit that goes on to the next level without the -r flag too
decidedWithoutFlag(r) ==
    LET n == newErrorCountOf(r.t.errorCount, r.code)
        sr == withinTolerance(n)
    IN  [r EXCEPT !.newErrorCount = n, !.shouldRecurse = sr,
                  !.pc = IF r.code = 200 /\ sr THEN "dedup"
                         ELSE IF sr THEN "precheck" ELSE "completed"]

\* lines 819-833 and the conditions of lines 835 and 889: what a hit does next
decided(r) ==
    IF ~r.t.withSlash /\ recursive
    THEN LET n == newErrorCountOf(r.t.errorCount, r.code)
             sr == withinTolerance(n)
         IN  [r EXCEPT !.newErrorCount = n, !.shouldRecurse = sr,
                       !.pc = IF r.code = 200 /\ sr THEN "dedup"
                              ELSE IF sr THEN "precheck" ELSE "completed"]
    ELSE [r EXCEPT !.pc = "completed"]

\* line 796: receive a task; line 801: build its URL
Recv(w) ==
    /\ Started(w)
    /\ wk[w].pc = "idle"
    /\ reqJobs # <<>>
    /\ LET t == Head(reqJobs)
       IN  wk' = [wk EXCEPT ![w] = [Idle EXCEPT !.pc = "request", !.t = t,
                      !.u = buildURL(t.base, t.prefix, t.word, t.withSlash)]]
    /\ reqJobs' = Tail(reqJobs)
    /\ UNCHANGED <<cfgVars, probeVars, prechecks, written, mainPc, seedIdx, closed, seen, hits, completed,
                   totalTasks, droppedTasks, pending, hashBest, contentAncestors,
                   gets, log>>

\* line 796: the channel is closed and drained; line 795: wg.Done
Exit(w) ==
    /\ Started(w)
    /\ wk[w].pc = "idle"
    /\ reqJobs = <<>>
    /\ closed
    /\ wk' = [wk EXCEPT ![w].pc = "exited"]
    /\ UNCHANGED <<cfgVars, probeVars, prechecks, written, mainPc, seedIdx, reqJobs, closed, seen, hits, completed,
                   totalTasks, droppedTasks, pending, hashBest, contentAncestors,
                   gets, log>>

\* a client that takes a failure for a response
transportErrorNever(a) == FALSE

\* lines 620-621: client.Do returned an error
transportError(a) == a = NoAnswer

\* a counter of the 200s only
isHitOn200(code) == code = 200

\* line 634: the status is not in the exclusion set
isHit(code) == code \notin excluded

\* requestURL (lines 615-639) and its caller's test of ok (line 807): the
\* at-most-once filter, the GET and its answer, the hash of a 200, the hit counter
Request(w) ==
    /\ wk[w].pc = "request"
    /\ LET u == wk[w].u
       IN  IF loadedFrom(seen, u)
           THEN /\ wk' = [wk EXCEPT ![w].pc = "completed"]
                /\ UNCHANGED <<seen, gets, hits, log>>
           ELSE /\ seen' = seen \cup {u}
                /\ gets' = (u :> (IF u \in DOMAIN gets THEN gets[u] + 1 ELSE 1)) @@ gets
                /\ \E a \in TargetResponses(u) :
                      LET code == a.status
                          sum == IF code = 200 THEN Sha1Hex(a.body) ELSE ""
                          r == [wk[w] EXCEPT !.code = code, !.sum = sum]
                      IN  IF transportError(a) \/ ~isHit(code)
                          THEN /\ wk' = [wk EXCEPT ![w] = [r EXCEPT !.pc = "completed"]]
                               /\ UNCHANGED <<hits, log>>
                          ELSE /\ hits' = hits + 1
                               /\ log' = Logged(u, LogEntry(code, sum, wk[w].t.errorCount, "hit"))
                               /\ wk' = [wk EXCEPT ![w] =
                                            IF code = 200 /\ sum # ""
                                            THEN [r EXCEPT !.pc = "record"]
                                            ELSE decided(r)]
    /\ UNCHANGED <<cfgVars, probeVars, prechecks, written, mainPc, seedIdx, reqJobs, closed, completed,
                   totalTasks, droppedTasks, pending, hashBest, contentAncestors>>

\* lines 810-817: the path of a 200 enters the ancestry table
Record(w) ==
    /\ wk[w].pc = "record"
    /\ contentAncestors' = recordPathContent(wk[w].sum, UrlPath(wk[w].u))
    /\ wk' = [wk EXCEPT ![w] = decided(wk[w])]
    /\ UNCHANGED <<cfgVars, probeVars, prechecks, written, mainPc, seedIdx, reqJobs, closed, seen, hits, completed,
                   totalTasks, droppedTasks, pending, hashBest, gets, log>>

\* a worker that asks the loop guard whatever the ledger said
afterDedupUnconditional(sr) == "loop"

\* line 870: the loop guard is asked only if shouldRecurse is still true
afterDedup(sr) == IF sr THEN "loop" ELSE "completed"

\* lines 835-867: the ledger's critical section (hashMu)
Dedup(w) ==
    /\ wk[w].pc = "dedup"
    /\ \E norm \in {normalizeOutputURL(wk[w].u)} :
       \E key \in {keyOf(norm, wk[w].sum)} :
       \E ledger \in {ledgerUpdate(hashBest, key, norm)} :
       \E sr \in {ledger[key] = norm} :
           /\ hashBest' = ledger
           /\ wk' = [wk EXCEPT ![w].shouldRecurse = sr,
                               ![w].pc = afterDedup(sr)]
           /\ log' = (wk[w].u :> [log[wk[w].u] EXCEPT
                          !.dedup = IF sr THEN "holder" ELSE "absorbed",
                          !.verdict = IF sr THEN @ ELSE "absorbed"]) @@ log
    /\ UNCHANGED <<cfgVars, probeVars, prechecks, written, mainPc, seedIdx, reqJobs, closed, seen, hits, completed,
                   totalTasks, droppedTasks, pending, contentAncestors, gets>>

\* lines 870-884: the loop guard
Loop(w) ==
    /\ wk[w].pc = "loop"
    /\ LET veto == checkInfiniteLoop(wk[w].sum, UrlPath(wk[w].u))
       IN  /\ wk' = [wk EXCEPT ![w].shouldRecurse = ~veto,
                               ![w].pc = IF veto THEN "completed" ELSE "precheck"]
           /\ log' = IF veto THEN Verdict(wk[w].u, "loop") ELSE log
    /\ UNCHANGED <<cfgVars, probeVars, prechecks, written, mainPc, seedIdx, reqJobs, closed, seen, hits, completed,
                   totalTasks, droppedTasks, pending, hashBest, contentAncestors, gets>>

\* line 890
nextPrefix(t) == Join(<<t.prefix, t.word>>)

\* a worker that recurses whatever the precheck returned
afterPrecheckIgnored(veto) == "backpressure"

\* lines 893-898: a reflective verdict ends the task, any other goes on to recurse
afterPrecheck(veto) == IF veto THEN "completed" ELSE "backpressure"

\* lines 889-898: the precheck of the next directory level
Precheck(w) ==
    /\ wk[w].pc = "precheck"
    /\ \E prefix \in {nextPrefix(wk[w].t)} :
       \E veto \in {preCheckReflective(o) : o \in ProbeOutcomes(wk[w].t.base, prefix)} :
              /\ wk' = [wk EXCEPT ![w].pc = afterPrecheck(veto)]
              /\ log' = IF veto THEN Verdict(wk[w].u, "reflective") ELSE log
              /\ prechecks' = Prechecked(prefix, veto)
              /\ seen' = probesSeen(seen, wk[w].t.base, prefix)
    /\ UNCHANGED <<cfgVars, probeVars, written, mainPc, seedIdx, reqJobs, closed, hits, completed,
                   totalTasks, droppedTasks, pending, hashBest, contentAncestors, gets>>

\* lines 900-919: the backpressure check on len(reqJobs)
Backpressure(w) ==
    /\ wk[w].pc = "backpressure"
    /\ LET add == Len(words)
           queueLen == Len(reqJobs)
           availableSpace == maxQueueSize - queueLen
       IN  IF queueNearFull(availableSpace, add)
           THEN /\ droppedTasks' = droppedTasks + add
                /\ wk' = [wk EXCEPT ![w].pc = "completed"]
                /\ log' = Verdict(wk[w].u, "dropped")
                /\ UNCHANGED <<pending, totalTasks>>
           ELSE /\ pending' = pendingAdd(pending, add)
                /\ totalTasks' = totalTasks + add
                /\ wk' = [wk EXCEPT ![w].pc = "send", ![w].i = 1]
                /\ log' = Verdict(wk[w].u, "expanded")
                /\ UNCHANGED droppedTasks
    /\ UNCHANGED <<cfgVars, probeVars, prechecks, written, mainPc, seedIdx, reqJobs, closed, seen, hits, completed,
                   hashBest, contentAncestors, gets>>

\* lines 920-922: one send of the loop; it blocks while the channel is full, and
\* a send on a closed channel panics
Send(w) ==
    /\ wk[w].pc = "send"
    /\ closed \/ Len(reqJobs) < maxQueueSize
    /\ IF closed
       THEN /\ wk' = [wk EXCEPT ![w].pc = "panic"]
            /\ UNCHANGED reqJobs
       ELSE /\ LET t == wk[w].t
               IN  reqJobs' = Append(reqJobs,
                                  reqTask(t.base, nextPrefix(t), words[wk[w].i],
                                          t.depth + 1, FALSE, wk[w].newErrorCount))
            /\ wk' = [wk EXCEPT ![w].i = @ + 1,
                                ![w].pc = IF wk[w].i = Len(words) THEN "completed"
                                          ELSE "send"]
    /\ UNCHANGED <<cfgVars, probeVars, prechecks, written, mainPc, seedIdx, closed, seen, hits, completed, totalTasks,
                   droppedTasks, pending, hashBest, contentAncestors, gets, log>>

\* lines 798-799: the deferred calls, completed++ and then pending.Done(); the
\* worker is back at line 796
Done(w) ==
    /\ wk[w].pc = "completed"
    /\ completed' = completed + 1
    /\ pending' = pending - 1
    /\ wk' = [wk EXCEPT ![w] = Idle]
    /\ UNCHANGED <<cfgVars, probeVars, prechecks, written, mainPc, seedIdx, reqJobs, closed, seen, hits,
                   totalTasks, droppedTasks, hashBest, contentAncestors, gets, log>>

\* lines 966-975: the result set that main writes once wg.Wait() has returned
seenOut == {hashBest[key] : key \in DOMAIN hashBest}

Main == MainProbe \/ MainPrecheck \/ MainSeed \/ MainSend \/ CloserWait \/ CloserClose \/ MainWgWait

Worker(w) ==
    \/ Recv(w) \/ Exit(w) \/ Request(w) \/ Record(w) \/ Dedup(w)
    \/ Loop(w) \/ Precheck(w) \/ Backpressure(w) \/ Send(w) \/ Done(w)

Next == Main \/ \E w \in Workers : Worker(w)

Spec == Init /\ [][Next]_vars

\* every goroutine that can take a step is scheduled, and every GET is answered
\* or times out (the client's 10 s timeout, line 590)
Fairness == WF_vars(Main) /\ \A w \in Workers : WF_vars(Worker(w))

\* the runs whose endings are checked: a chain, and wordlists wider than the queue
FairRuns ==
    {run \in Runs : \/ run.down
                    \/ run.words \in OneWord
                    \/ run.words \in ThreeWords
                    \/ run.words \in TwoWords /\ run.concurrency = 1}

FairInit == \E run \in FairRuns : Start(run)

FairSpec == FairInit /\ [][Next]_vars /\ Fairness

(***************************************************************************)
(* Properties                                                              *)
(***************************************************************************)
Busy(w) == wk[w].pc \notin {"idle", "exited"}

\* the task of worker w found its URL in the Global Seen Set
Skips(w) == wk[w].pc = "request" /\ wk[w].u \in seen /\ wk'[w] # wk[w]

\* C1: requestURL issues at most one GET per URL in a run, whatever the
\* interleaving of the workers; a task that builds a URL another task has
\* already claimed returns as skipped: no hit is counted, the ancestry table and
\* the ledger are not touched and no child task is reserved or enqueued.
C1_AtMostOnce ==
    /\ [](\A u \in seen : u \in DOMAIN gets /\ gets[u] = 1)
    /\ [][\A w \in Workers :
            Skips(w) => /\ wk'[w].pc = "completed"
                        /\ UNCHANGED <<seen, gets, hits, hashBest, contentAncestors,
                                       reqJobs, pending, totalTasks, log>>]_vars

\* two workers hold tasks for the same URL: one got its answer, the other was skipped
C1_Witness ==
    \E w1, w2 \in Workers :
        /\ w1 # w2
        /\ wk[w1].u = wk[w2].u
        /\ wk[w1].pc = "record"
        /\ wk[w2].pc = "completed" /\ wk[w2].code = 0
        /\ gets[wk[w1].u] = 1

\* a worker that passed the backpressure check and waits for a free slot
BlockedOnSend(w) == wk[w].pc = "send" /\ ~closed /\ Len(reqJobs) >= maxQueueSize

\* C2: the enqueue of child tasks never blocks the pipeline: no reachable state
\* has every worker waiting to send on a full queue (so that nobody is left to
\* receive) while the pending count is above zero.
C2_EnqueueNeverBlocks ==
    ~(/\ pending > 0
      /\ \A w \in Workers : Started(w) => BlockedOnSend(w))

\* the URLs whose batch of children was discarded by the backpressure check
DroppedBatches == {u \in DOMAIN log : log[u].verdict = "dropped"}

RunOver == mainPc \in {"returned", "finished"}

\* C3: with a queue capacity smaller than the fan-out W, every run ends (the
\* pending count reaches zero, the queue is closed and the workers leave)
\* instead of blocking forever; no child task is ever enqueued, and the dropped
\* counter is W for each batch that was discarded.
C3_BackpressureTerminates ==
    /\ [][droppedTasks' = Len(words) * Cardinality(DroppedBatches')]_vars
    /\ [][maxQueueSize < Len(words) =>
            /\ totalTasks' <= Len(words)
            /\ \A u \in DOMAIN log' : log'[u].verdict # "expanded"]_vars
    /\ <>(maxQueueSize < Len(words) => RunOver /\ pending = 0)

\* a run with capacity below the fan-out that is over and has discarded a batch
C3_Witness ==
    /\ maxQueueSize < Len(words)
    /\ mainPc = "finished"
    /\ pending = 0
    /\ droppedTasks > 0

\* the tasks a producer has added to the pending count and not yet sent
UnsentOfMain ==
    IF mainPc = "send" THEN Len(words) - seedIdx + 1 ELSE 0

UnsentOf(w) ==
    IF wk[w].pc = "send" THEN Len(words) - wk[w].i + 1 ELSE 0

RECURSIVE UnsentOfAll(_)
UnsentOfAll(ws) ==
    IF ws = {} THEN 0
    ELSE LET w == CHOOSE x \in ws : TRUE
         IN  UnsentOf(w) + UnsentOfAll(ws \ {w})

InFlight == Cardinality({w \in Workers : Busy(w)})

AllExited == \A w \in Workers : Started(w) => wk[w].pc = "exited"

\* C4: the queue is closed only when the pending count is zero, the queue is
\* empty and no worker holds a task; the pending count is exactly the tasks
\* queued, in flight, or reserved and not yet sent, so it is never zero while
\* one of them exists; no task is ever sent on the closed queue; and once the
\* queue is closed every worker exits.
C4_CloseAtQuiescence ==
    /\ [](mainPc \in {"close", "wgwait", "finished"} =>
            /\ pending = 0
            /\ reqJobs = <<>>
            /\ \A w \in Workers : wk[w].pc \in {"idle", "exited"})
    /\ [](pending = Len(reqJobs) + InFlight + UnsentOfMain + UnsentOfAll(Workers))
    /\ [](\A w \in Workers : wk[w].pc # "panic")
    /\ [](closed => <>AllExited)

\* the queue was closed after a worker had sent children, and the workers left
C4_Witness ==
    /\ closed
    /\ AllExited
    /\ totalTasks > Len(words)
    /\ pending = 0

\* the run has reached pending = 0: nothing is queued, in flight or reserved
Quiescent == mainPc \in {"close", "wgwait", "finished"}

Expanded == {u \in DOMAIN log : log[u].verdict = "expanded"}

\* a chain (one word per level) whose every response is a non-excluded non-200,
\* that no precheck or backpressure cut short, and that ended with a hit that
\* was not expanded
ErrorBranch ==
    /\ Quiescent
    /\ recursive
    /\ maxDepth >= 1
    /\ Len(words) = 1
    /\ \A u \in DOMAIN log : log[u].code # 200 /\ log[u].verdict \in {"expanded", "hit"}
    /\ \E u \in DOMAIN log : log[u].verdict = "hit"

\* C5 as stated: with tolerance N a branch whose every response is a non-200 is
\* expanded exactly N times before recursion stops.
C5_ExpandedNTimes == ErrorBranch => Cardinality(Expanded) = maxDepth

\* C5: with tolerance N a branch whose every response is a non-200 is expanded
\* exactly N - 1 times before recursion stops: the non-200 of the initiating
\* request already counts against the budget, and the N-th consecutive non-200
\* is not expanded.
C5_ExpandedNMinusOneTimes == ErrorBranch => Cardinality(Expanded) = maxDepth - 1

\* tolerance 3: an all-500 chain that was expanded twice and stopped at its third hit
C5_Witness ==
    /\ ErrorBranch
    /\ maxDepth = MaxTolerance
    /\ Cardinality(Expanded) = maxDepth - 1
    /\ Cardinality(DOMAIN log) = maxDepth

\* the budget of a hit: 0 after a 200, the parent's budget plus one otherwise
BudgetOf(code, errorCount) == IF code = 200 THEN 0 ELSE errorCount + 1

\* worker w sends a child task in this step
Sends(w) == wk[w].pc = "send" /\ Len(reqJobs') = Len(reqJobs) + 1 /\ wk'[w] # wk[w]

\* C6: the new error budget of a processed task is 0 if its status is 200 and
\* the parent's budget plus one otherwise; children are reserved and enqueued,
\* carrying the new budget, only if it is below the tolerance: tolerance 1 never
\* expands a non-200, tolerance 2 expands a non-200 only with parent budget 0,
\* tolerance 3 only with parent budget at most 1.
C6_BudgetTransition ==
    /\ [](\A u \in Expanded : BudgetOf(log[u].code, log[u].errorCount) < maxDepth)
    /\ [](\A w \in Workers :
            wk[w].pc \in {"dedup", "loop", "precheck", "backpressure", "send"} =>
                /\ wk[w].newErrorCount = BudgetOf(wk[w].code, wk[w].t.errorCount)
                /\ wk[w].newErrorCount < maxDepth)
    /\ [][\A w \in Workers :
            Sends(w) =>
                LET child == reqJobs'[Len(reqJobs')]
                IN  /\ child.errorCount = BudgetOf(wk[w].code, wk[w].t.errorCount)
                    /\ child.errorCount < maxDepth]_vars

\* tolerance 3: a second consecutive non-200 was expanded, and a 200 reset the budget
C6_Witness ==
    /\ maxDepth = 3
    /\ \E u \in Expanded : log[u].code # 200 /\ log[u].errorCount = 1
    /\ \E w \in Workers : /\ wk[w].pc = "send"
                           /\ wk[w].code = 200
                           /\ wk[w].t.errorCount > 0

\* the 200s of the run, and the ones the ledger has decided on
Found == {u \in DOMAIN log : log[u].code = 200}

Permitted == {u \in Found : log[u].dedup = "holder"}

Absorbed == {u \in Found : log[u].dedup = "absorbed"}

NormLen(u) == Len(normalizeOutputURL(u))

KeyOfFound(u) == keyOf(normalizeOutputURL(u), log[u].sum)

SameKey(u, v) == KeyOfFound(u) = KeyOfFound(v)

\* C7 as stated: for every (branch, fingerprint) key at most one URL is ever
\* permitted to recurse and has its children enqueued.
C7_OnePermittedPerKey ==
    \A u, v \in Permitted \cap Expanded : SameKey(u, v) => u = v

\* C7: for every (branch, fingerprint) key at most one URL holds the key at any
\* time, and a URL is permitted to recurse only if it is strictly shorter than
\* every URL that was permitted for the key before it; so a key can permit
\* several URLs over a run, of strictly decreasing length (content X at /a/bb
\* and then at /a/b permits both), and a URL that arrives after a shorter or
\* equally long one (content X at /a/b and then at /a/bb) is absorbed.
C7_PermittedShorterEachTime ==
    /\ [](\A u \in Permitted :
            /\ KeyOfFound(u) \in DOMAIN hashBest
            /\ Len(hashBest[KeyOfFound(u)]) <= NormLen(u)
            /\ \A v \in Permitted : SameKey(u, v) /\ NormLen(u) = NormLen(v) => u = v)
    /\ [][\A u \in Permitted' \ Permitted :
            /\ hashBest'[KeyOfFound(u)'] = normalizeOutputURL(u)
            /\ \A v \in Permitted : SameKey(u, v)' => NormLen(u) < NormLen(v)]_vars
    /\ [][\A u \in Absorbed' \ Absorbed :
            /\ hashBest' = hashBest
            /\ \E v \in Permitted : SameKey(u, v)' /\ NormLen(v) <= NormLen(u)]_vars

\* a key that has permitted two URLs, and both had their children enqueued
C7_Witness ==
    \E u, v \in Permitted \cap Expanded :
        /\ SameKey(u, v)
        /\ NormLen(u) < NormLen(v)
        /\ hashBest[KeyOfFound(u)] = normalizeOutputURL(u)

\* C8: at quiescence of a recursive run with tolerance at least 1, the holder
\* of every key of the ledger is one of the URLs that returned a non-excluded
\* 200 with that key, and none of them has a shorter normalized URL.
C8_HolderIsShortest ==
    Quiescent /\ recursive /\ maxDepth >= 1 =>
        /\ \A u \in Found :
              /\ KeyOfFound(u) \in DOMAIN hashBest
              /\ Len(hashBest[KeyOfFound(u)]) <= NormLen(u)
        /\ \A key \in DOMAIN hashBest :
              \E u \in Found : KeyOfFound(u) = key /\ hashBest[key] = normalizeOutputURL(u)

\* a finished run in which the longer URL of a key was found first and held the
\* key, and the shorter one holds it at the end
C8_Witness ==
    /\ mainPc = "finished"
    /\ \E u, v \in Permitted :
          /\ SameKey(u, v)
          /\ NormLen(u) < NormLen(v)
          /\ hashBest[KeyOfFound(u)] = normalizeOutputURL(u)

\* worker w leaves the ledger's critical section in this step
Decides(w) == wk[w].pc = "dedup" /\ wk'[w] # wk[w]

CandidateOf(w) == normalizeOutputURL(wk[w].u)

CandidateKey(w) == keyOf(CandidateOf(w), wk[w].sum)

\* C9: an update of the ledger replaces the holder of a key only when the key
\* has no holder or the candidate's normalized URL is strictly shorter; on a tie
\* of lengths the earlier holder stays; a 200 candidate goes on toward recursion
\* only if it is the holder right after its own update; the length of a key's
\* holder never increases and no key is ever removed.
C9_LedgerUpdateRule ==
    /\ [][\A w \in Workers :
            Decides(w) =>
                LET norm == CandidateOf(w)
                    key == CandidateKey(w)
                    exists == key \in DOMAIN hashBest
                IN  /\ hashBest'[key] = IF ~exists \/ Len(norm) < Len(hashBest[key])
                                        THEN norm ELSE hashBest[key]
                    /\ \A k \in DOMAIN hashBest : k # key => hashBest'[k] = hashBest[k]
                    /\ DOMAIN hashBest' = DOMAIN hashBest \cup {key}
                    /\ exists /\ Len(norm) = Len(hashBest[key]) => hashBest' = hashBest
                    /\ wk'[w].pc = IF hashBest'[key] = norm THEN "loop" ELSE "completed"]_vars
    /\ [][/\ DOMAIN hashBest \subseteq DOMAIN hashBest'
          /\ \A k \in DOMAIN hashBest : Len(hashBest'[k]) <= Len(hashBest[k])
          /\ hashBest' # hashBest => \E w \in Workers : Decides(w)]_vars

\* a worker has just replaced a longer holder by its strictly shorter candidate
\* and goes on toward recursion
C9_Witness ==
    \E w \in Workers :
        /\ wk[w].pc = "loop"
        /\ hashBest[CandidateKey(w)] = CandidateOf(w)
        /\ \E v \in Permitted : /\ v # wk[w].u
                                 /\ KeyOfFound(v) = CandidateKey(w)
                                 /\ NormLen(v) > Len(CandidateOf(w))

\* two different 200s of one key and one length, both decided by the ledger,
\* with no shorter URL of the key permitted
EqualLengthRace(u, v) ==
    /\ u # v
    /\ log[u].dedup # "none" /\ log[v].dedup # "none"
    /\ SameKey(u, v)
    /\ NormLen(u) = NormLen(v)
    /\ \A x \in Permitted : SameKey(x, u) => NormLen(x) >= NormLen(u)

\* C10: when two different URLs of equal normalized length and the same key
\* reach the ledger and no holder exists yet, exactly one of them becomes the
\* holder and goes on toward recursion and the other is absorbed, whatever the
\* interleaving; a worker is in the critical section for one atomic step, so no
\* other worker's update of the key falls between its read and its write.
C10_ExactlyOneWinsTie ==
    /\ [](\A u, v \in Found :
            EqualLengthRace(u, v) =>
                /\ (u \in Permitted) # (v \in Permitted)
                /\ hashBest[KeyOfFound(u)] \in {normalizeOutputURL(u), normalizeOutputURL(v)})
    /\ [][\A w1, w2 \in Workers :
            Decides(w1) /\ w1 # w2 /\ wk[w2].pc = "dedup" => wk'[w2] = wk[w2]]_vars

\* two workers were at the ledger together with equal-length URLs of one key: one
\* has won, and the other one has been absorbed
C10_Witness ==
    \E w1, w2 \in Workers :
        /\ w1 # w2
        /\ wk[w1].pc = "loop" /\ wk[w2].pc = "completed"
        /\ wk[w1].u \in Permitted /\ wk[w2].u \in Absorbed
        /\ EqualLengthRace(wk[w1].u, wk[w2].u)
        /\ wk[w1].t.prefix = wk[w2].t.prefix

SameContent(u, v) == log[u].sum = log[v].sum

EmittedOf(u) == normalizeOutputURL(u) \in seenOut

TasksAlive == {reqJobs[k] : k \in 1..Len(reqJobs)} \cup {wk[w].t : w \in {x \in Workers : Busy(x)}}

\* the target has answered 200 with the same body to every request so far, on a
\* chain /x, /x/x, ... (one word)
IdenticalChain ==
    /\ Len(words) = 1
    /\ \A u \in DOMAIN gets : u \in DOMAIN log /\ log[u].code = 200 /\ log[u].sum = Sha1Hex("X")

\* C12: when the target returns 200 with identical content at /x, /x/x, ...,
\* recursion along the chain stops at a bounded depth in every interleaving:
\* only /x is ever expanded, no task deeper than the children of /x exists, and
\* the run ends.
C12_IdenticalChainStops ==
    /\ [](IdenticalChain =>
            /\ \A t \in TasksAlive : t.depth <= 1
            /\ \A u \in Expanded : u = buildURL(base, <<>>, words[1], FALSE)
            /\ totalTasks <= 2)
    /\ <>(Len(words) = 1 => RunOver)

\* /x was expanded, /x/x returned the same content and was not, and the run is over
C12_Witness ==
    /\ IdenticalChain
    /\ mainPc = "finished"
    /\ Cardinality(DOMAIN log) = 2
    /\ Cardinality(Expanded) = 1
    /\ \E u \in DOMAIN log : log[u].verdict = "absorbed" /\ log[u].errorCount = 0

\* the word of the catch-all directory /b, and the prefixes at or below it
catchWord == siteRoot[Len(siteRoot)]

UnderCatch(prefix) ==
    prefix = <<catchWord>> \/ HasPrefix(prefix, <<catchWord, "/">>)

\* worker w takes a step of the task for /b
HandlesCatch(w) ==
    /\ Busy(w)
    /\ wk[w].t.depth = 0
    /\ wk[w].t.word = <<catchWord>>
    /\ wk'[w] # wk[w]

\* the sibling /c and its children
SiblingPaths ==
    {siblingRoot} \cup {siblingRoot \o <<"/">> \o words[k] : k \in 1..Len(words)}

\* C13: when the target answers every path under /catch with the same 200, no
\* task with prefix catch or deeper ever exists and nothing below /catch is
\* requested; and the steps of the task for /catch leave untouched all that a
\* recursion decision of a sibling reads: the ledger entries of other branches,
\* the loop guard's verdict on the sibling's paths, the queue and the counters
\* of reserved and dropped tasks (the task only completes, as it would for a
\* path that does not exist).
C13_CatchAllNotEntered ==
    /\ [](catchAll =>
            /\ \A t \in TasksAlive : ~UnderCatch(t.prefix)
            /\ \A u \in DOMAIN gets : ~HasPrefix(UrlPath(u), siteRoot \o <<"/">>)
            /\ \A u \in Expanded : UrlPath(u) # siteRoot)
    /\ [][catchAll =>
            \A w \in Workers :
                HandlesCatch(w) =>
                    /\ \A key \in DOMAIN hashBest' :
                          key[1] # <<catchWord>> =>
                              key \in DOMAIN hashBest /\ hashBest'[key] = hashBest[key]
                    /\ \A body \in Bodies : \A pth \in SiblingPaths :
                          checkInfiniteLoop(Sha1Hex(body), pth)' =
                              checkInfiniteLoop(Sha1Hex(body), pth)
                    /\ reqJobs' = reqJobs
                    /\ totalTasks' = totalTasks /\ droppedTasks' = droppedTasks
                    /\ pending' \in {pending, pending - 1}]_vars

\* a finished run on a catch-all target: /b was found reflective and the
\* sibling /c was expanded
C13_Witness ==
    /\ catchAll
    /\ mainPc = "finished"
    /\ \E u \in DOMAIN log : UrlPath(u) = siteRoot /\ log[u].verdict = "reflective"
    /\ \E u \in Expanded : UrlPath(u) = siblingRoot

\* main decides on the root precheck in this step
RootVerdict ==
    mainPc = "precheck" /\ testIdx > Len(testWords) /\ mainPc' # mainPc

\* the recorded results that are not a plain 404
Comparable == SelectSeq(testResults, LAMBDA r : r.status # 404)

AllAlike(results) ==
    \A i, j \in 1..Len(results) :
        results[i].status = results[j].status /\ results[i].hash = results[j].hash

\* C14 as stated: only the results that are not a plain 404 are compared; the
\* precheck is reflective exactly when at least two of them exist and all of
\* them share status and fingerprint.
C14_ComparesNon404Only ==
    [][RootVerdict =>
          (mainPc' = "returned" <=> Len(Comparable) >= 2 /\ AllAlike(Comparable))]_vars

\* C14 (amended): every answered probe is recorded, a plain 404 with an empty
\* fingerprint, and all of them are compared: the precheck is reflective exactly
\* when at least two probes were answered, none of them with 404, and all share
\* status and fingerprint. A transport failure leaves no result. When no
\* answered probe or every answered probe is a 404 this is the stated rule.
C14_ComparesAllAnswered ==
    [][RootVerdict =>
          /\ mainPc' = "returned" <=>
                 /\ Len(testResults) >= 2
                 /\ \A k \in 1..Len(testResults) : testResults[k].status # 404
                 /\ AllAlike(testResults)
          /\ Len(Comparable) \in {0, Len(testResults)} =>
                 (mainPc' = "returned" <=>
                      Len(Comparable) >= 2 /\ AllAlike(Comparable))]_vars

\* the three probes are done: one was answered 404 and two alike with a 200
C14_Witness ==
    /\ mainPc = "precheck"
    /\ testIdx > Len(testWords)
    /\ Len(testResults) = 3
    /\ Len(Comparable) = 2
    /\ AllAlike(Comparable)
    /\ testResults[2].status = 404

\* a precheck of the prefix has returned reflective
Vetoed(prefix) ==
    prefix \in DOMAIN prechecks /\ \E k \in 1..Len(prechecks[prefix]) : prechecks[prefix][k]

\* a precheck of the prefix has returned
PrecheckDone(prefix) == prefix \in DOMAIN prechecks

\* every word of the wordlist is one path segment
SingleSegmentWords ==
    \A k \in 1..Len(words) : words[k] # <<>> /\ "/" \notin {words[k][i] : i \in 1..Len(words[k])}

\* C15: once the precheck of a prefix P has returned reflective, no task with
\* prefix P exists (nor, when every word is one segment, a task with a prefix
\* below P), so none is enqueued afterwards, although the parent had passed the
\* error tolerance, the ledger and the loop guard; and a task with prefix P
\* exists only after the precheck of P has returned.
C15_ReflectiveVetoes ==
    /\ [](\A prefix \in DOMAIN prechecks :
            Vetoed(prefix) =>
                \A t \in TasksAlive :
                    /\ t.prefix # prefix
                    /\ SingleSegmentWords => ~HasPrefix(t.prefix, prefix \o <<"/">>))
    /\ [](\A t \in TasksAlive : PrecheckDone(t.prefix))
    /\ [][\A w \in Workers :
            Sends(w) => PrecheckDone(reqJobs'[Len(reqJobs')].prefix)
                        /\ ~Vetoed(reqJobs'[Len(reqJobs')].prefix)]_vars

\* the precheck of one directory has returned reflective for a parent that was
\* the holder of its content, while children of another directory are enqueued
C15_Witness ==
    /\ \E prefix \in DOMAIN prechecks : prefix # <<>> /\ Vetoed(prefix)
    /\ \E u \in Permitted : log[u].verdict = "reflective"
    /\ \E k \in 1..Len(reqJobs) : reqJobs[k].prefix # <<>>

\* C16: the precheck returns at most once for each directory prefix; the root
\* precheck returns before any seed task is reserved or enqueued and before any
\* request of a task is issued; and after a reflective root precheck no task is
\* seeded, no request is issued, the hit counter stays 0 and the result set
\* stays empty.
C16_PrecheckOncePerPrefix ==
    /\ [](\A prefix \in DOMAIN prechecks : Len(prechecks[prefix]) = 1)
    /\ [](mainPc = "precheck" <=> ~PrecheckDone(<<>>))
    /\ [](~PrecheckDone(<<>>) =>
            /\ reqJobs = <<>> /\ pending = 0 /\ totalTasks = 0
            /\ gets = <<>> /\ seen = {}
            /\ \A w \in Workers : ~Busy(w))
    /\ [](Vetoed(<<>>) =>
            /\ mainPc = "returned"
            /\ reqJobs = <<>> /\ pending = 0 /\ totalTasks = 0
            /\ gets = <<>> /\ seen = {}
            /\ \A w \in Workers : ~Busy(w)
            /\ hits = 0
            /\ seenOut = {})

\* the root precheck has returned reflective after three answered probes
C16_RootReflective ==
    /\ Vetoed(<<>>)
    /\ testIdx > Len(testWords)

\* a finished run in which the prechecks of two directories have returned
C16_Witness ==
    /\ mainPc = "finished"
    /\ Cardinality(DOMAIN prechecks) >= 3
    /\ hits > 0

\* worker w takes the backpressure decision in this step
Decision(w) == wk[w].pc = "backpressure" /\ wk'[w] # wk[w]

\* worker w has enqueued some children of its batch and not yet all of them
PartlyEnqueued(w) == wk[w].pc = "send" /\ wk[w].i > 1

\* nothing can be received any more: every worker waits for a free slot
Stuck == pending > 0 /\ \A w \in Workers : Started(w) => BlockedOnSend(w)

\* the effect of the decision and of each send of the batch (lines 900-923)
DecisionFrame ==
    /\ [][\A w \in Workers :
            Decision(w) =>
                IF maxQueueSize - Len(reqJobs) < Len(words)
                THEN /\ droppedTasks' = droppedTasks + Len(words)
                     /\ pending' = pending /\ totalTasks' = totalTasks
                     /\ reqJobs' = reqJobs
                     /\ wk'[w].pc = "completed"
                ELSE /\ pending' = pending + Len(words)
                     /\ totalTasks' = totalTasks + Len(words)
                     /\ droppedTasks' = droppedTasks
                     /\ reqJobs' = reqJobs
                     /\ wk'[w].pc = "send" /\ wk'[w].i = 1]_vars
    /\ [][\A w \in Workers :
            wk[w].pc = "send" /\ wk'[w] # wk[w] =>
                /\ reqJobs' = Append(reqJobs,
                       [base |-> wk[w].t.base,
                        prefix |-> Join(<<wk[w].t.prefix, wk[w].t.word>>),
                        word |-> words[wk[w].i],
                        depth |-> wk[w].t.depth + 1,
                        withSlash |-> FALSE,
                        errorCount |-> BudgetOf(wk[w].code, wk[w].t.errorCount)])
                /\ pending' = pending /\ totalTasks' = totalTasks
                /\ droppedTasks' = droppedTasks
                /\ wk'[w].pc # "send" <=> wk[w].i = Len(words)]_vars

\* C17: a recursion decision that reaches the backpressure check is all or
\* nothing. With free capacity below W the dropped counter grows by W, pending
\* and total stay and no child is enqueued; otherwise pending and total grow by
\* W, the dropped counter stays, and the W children are enqueued, one per word
\* in wordlist order, with the parent's prefix joined with its word and the
\* parent's new budget; the worker ends the batch only with its last word, and
\* no batch stays partly enqueued.
C17_AllOrNothing ==
    /\ DecisionFrame
    /\ [](Stuck => \A w \in Workers : ~PartlyEnqueued(w))

\* a run without -r on two different words with tolerance 1
FlatRun == ~recursive /\ maxDepth = 1 /\ Len(words) = 2 /\ words[1] # words[2]

WordURLs == {buildURL(base, <<>>, words[k], FALSE) : k \in 1..Len(words)}

\* the nonce GETs the root precheck has issued
ProbesIssued == testIdx - 1

\* worker w issues the GET of its task in this step; the status it gets is
\* wk'[w].code, 0 for a transport failure
Gets(w) == wk[w].pc = "request" /\ wk[w].u \notin seen /\ wk'[w] # wk[w]

Responded(w) == wk'[w].code # 0

\* C18 as stated: without -r, on the wordlist {admin, api} with tolerance 1, the
\* only HTTP requests of the run are the GETs of the two words, the hit counter
\* counts the responses that are not a 404, and no child task is enqueued.
C18_OnlyTwoRequests ==
    /\ [](FlatRun =>
            /\ ProbesIssued = 0
            /\ DOMAIN gets \subseteq WordURLs
            /\ \A u \in DOMAIN gets : gets[u] = 1
            /\ totalTasks <= Len(words)
            /\ \A t \in TasksAlive : t.depth = 0)
    /\ [][FlatRun =>
            \A w \in Workers :
                Gets(w) => hits' = hits + (IF Responded(w) /\ wk'[w].code # 404
                                           THEN 1 ELSE 0)]_vars
    /\ [](FlatRun /\ mainPc = "finished" =>
            DOMAIN gets = WordURLs /\ hits = Cardinality(DOMAIN log))

\* C18 (amended): the run first issues the three nonce GETs of the root
\* precheck; if that precheck is reflective the run ends with no request for a
\* word and no hit. Otherwise the requests of tasks are the GETs of the two
\* words, one each, the hit counter grows by one with each response that is not
\* a 404 and ends as their number, no directory is prechecked, no batch is
\* reserved or dropped and no child task exists (total tasks is the wordlist
\* size).
C18_TwoWordRequests ==
    /\ [](FlatRun =>
            /\ ProbesIssued <= Len(testWords)
            /\ gets # <<>> => ProbesIssued = Len(testWords) /\ ~Vetoed(<<>>)
            /\ DOMAIN gets \subseteq WordURLs
            /\ \A u \in DOMAIN gets : gets[u] = 1
            /\ totalTasks \in {0, Len(words)}
            /\ droppedTasks = 0
            /\ DOMAIN prechecks \subseteq {<<>>}
            /\ \A t \in TasksAlive : t.depth = 0 /\ t.prefix = <<>>)
    /\ [][FlatRun =>
            \A w \in Workers :
                Gets(w) => hits' = hits + (IF Responded(w) /\ wk'[w].code # 404
                                           THEN 1 ELSE 0)]_vars
    /\ [](FlatRun /\ mainPc = "finished" =>
            /\ DOMAIN gets = WordURLs
            /\ hits = Cardinality(DOMAIN log)
            /\ \A u \in DOMAIN log : log[u].code # 404 /\ log[u].verdict = "hit"
            /\ totalTasks = Len(words))
    /\ [](FlatRun /\ mainPc = "returned" =>
            gets = <<>> /\ hits = 0 /\ totalTasks = 0)

\* a finished run without -r: three probes, two word requests, one of them a hit
\* with status 200
C18_Witness ==
    /\ FlatRun
    /\ mainPc = "finished"
    /\ ProbesIssued = Len(testWords)
    /\ DOMAIN gets = WordURLs
    /\ hits = 1
    /\ \E u \in DOMAIN log : log[u].code = 200

\* C19: the hit counter is the number of requests of tasks that were answered
\* with a status outside the exclusion set: it grows by one in the step of such
\* a response and in no other step, whatever the ledger, the loop guard, the
\* precheck or the backpressure check decide afterwards, and it never
\* decreases. The debug log holds one entry for each such request.
C19_HitsCountResponses ==
    /\ [][\A w \in Workers :
            Gets(w) => hits' = hits + (IF Responded(w) /\ wk'[w].code \notin excluded
                                       THEN 1 ELSE 0)]_vars
    /\ [][(\A w \in Workers : ~Gets(w)) => hits' = hits]_vars
    /\ [][hits' >= hits]_vars
    /\ [](/\ hits = Cardinality(DOMAIN log)
          /\ \A u \in DOMAIN log :
                log[u].code \notin excluded /\ u \in DOMAIN gets /\ gets[u] = 1)

\* a finished run whose hits include an absorbed duplicate, a non-200 and a
\* directory that was vetoed or dropped
C19_Witness ==
    /\ mainPc = "finished"
    /\ Absorbed # {}
    /\ \E u \in DOMAIN log : log[u].code = 500
    /\ \E u \in DOMAIN log : log[u].verdict \in {"reflective", "dropped", "loop"}
    /\ hits >= 3

\* worker w runs the deferred calls of a task whose request got no response
EndsFailed(w) == wk[w].pc = "completed" /\ wk[w].code = 0 /\ wk'[w] # wk[w]

\* C20: a request of a task that fails in transport is skipped: the step of the
\* failure changes neither the hit counter, the ledger, the ancestry table, the
\* log, the queue nor the counters of reserved and dropped tasks, and leaves the
\* URL in the seen set; the task then completes (pending one less, completed
\* one more) without enqueuing a child; a URL is never removed from the seen
\* set and never requested twice; and on a target where every request fails
\* the run ends, with zero hits, an empty result set and every seed task
\* completed.
C20_TransportFailureSkipped ==
    /\ [][\A w \in Workers :
            Gets(w) /\ ~Responded(w) =>
                /\ wk'[w].pc = "completed"
                /\ wk[w].u \in seen'
                /\ hits' = hits /\ log' = log
                /\ hashBest' = hashBest /\ contentAncestors' = contentAncestors
                /\ reqJobs' = reqJobs /\ pending' = pending
                /\ totalTasks' = totalTasks /\ droppedTasks' = droppedTasks]_vars
    /\ [][\A w \in Workers :
            EndsFailed(w) =>
                /\ wk'[w].pc = "idle"
                /\ pending' = pending - 1 /\ completed' = completed + 1
                /\ hits' = hits /\ log' = log
                /\ hashBest' = hashBest /\ contentAncestors' = contentAncestors
                /\ reqJobs' = reqJobs
                /\ totalTasks' = totalTasks /\ droppedTasks' = droppedTasks]_vars
    /\ [][seen \subseteq seen']_vars
    /\ [](\A u \in DOMAIN gets : gets[u] = 1 /\ u \in seen)
    /\ [](down => hits = 0 /\ hashBest = <<>> /\ totalTasks <= Len(words)
                  /\ \A w \in Workers : wk[w].pc # "panic")
    /\ <>(down => /\ mainPc = "finished"
                  /\ hits = 0 /\ seenOut = {}
                  /\ pending = 0 /\ completed = Len(words))

\* a run on a target that is down has ended: every word was requested, and
\* every request failed
C20_Witness ==
    /\ down
    /\ recursive
    /\ mainPc = "finished"
    /\ Cardinality(DOMAIN gets) >= 2
    /\ completed = Len(words)

\* the places of a worker after its response was taken as a hit
AfterHit == {"record", "dedup", "loop", "precheck", "backpressure", "send"}

\* C21: a response with a status of the exclusion set (200 too, when it is
\* excluded) is no hit: its step changes neither the hit counter, the log, the
\* ledger, the ancestry table, the queue nor the counters, and the task only
\* completes, so it never recurses. The ancestry table and the ledger are read
\* and written only by the task of a 200 hit: the record, ledger and loop-guard
\* steps belong to tasks with status 200, and every change of either table is
\* such a step.
C21_ExcludedAndNon200LeaveTables ==
    /\ [][\A w \in Workers :
            Gets(w) /\ Responded(w) /\ wk'[w].code \in excluded =>
                /\ wk'[w].pc = "completed"
                /\ hits' = hits /\ log' = log
                /\ hashBest' = hashBest /\ contentAncestors' = contentAncestors
                /\ reqJobs' = reqJobs /\ pending' = pending
                /\ totalTasks' = totalTasks /\ droppedTasks' = droppedTasks]_vars
    /\ [](\A w \in Workers :
            /\ wk[w].pc \in AfterHit => wk[w].code # 0 /\ wk[w].code \notin excluded
            /\ wk[w].pc \in {"record", "dedup", "loop"} => wk[w].code = 200)
    /\ [][hashBest' # hashBest \/ contentAncestors' # contentAncestors =>
            \E w \in Workers :
                /\ wk[w].code = 200
                /\ wk[w].pc \in {"record", "dedup"}
                /\ wk'[w] # wk[w]]_vars

\* a 200 was just answered in a run that excludes 200, while a 500 of the same
\* run was expanded
C21_Witness ==
    /\ 200 \in excluded
    /\ \E w \in Workers : wk[w].pc = "completed" /\ wk[w].code = 200
    /\ \E u \in Expanded : log[u].code = 500
    /\ hashBest = <<>> /\ contentAncestors = <<>>

\* the path is recorded under the fingerprint in the ancestry table
Recorded(sum, pth) == sum \in DOMAIN contentAncestors /\ pth \in contentAncestors[sum]

PathSegments(pth) ==
    LET at[i \in 0..Len(pth)] ==
            IF i = 0 THEN <<<<>>, <<>>>>
            ELSE IF pth[i] = "/"
                 THEN (IF at[i - 1][2] = <<>> THEN at[i - 1]
                       ELSE <<Append(at[i - 1][1], at[i - 1][2]), <<>>>>)
                 ELSE <<at[i - 1][1], Append(at[i - 1][2], pth[i])>>
        last == at[Len(pth)]
    IN  IF last[2] = <<>> THEN last[1] ELSE Append(last[1], last[2])

\* p lies above q in the path hierarchy
Ancestor(p, q) ==
    \E sp \in {PathSegments(p)} : \E sq \in {PathSegments(q)} :
        Len(sp) < Len(sq) /\ SubSeq(sq, 1, Len(sp)) = sp

\* another path recorded under the fingerprint is an ancestor or a descendant
SegmentLoop(sum, pth) ==
    /\ sum # ""
    /\ sum \in DOMAIN contentAncestors
    /\ \E known \in contentAncestors[sum] :
          known # pth /\ (Ancestor(known, pth) \/ Ancestor(pth, known))

\* the paths recorded under any fingerprint
RecordedPaths == UNION {contentAncestors[sum] : sum \in DOMAIN contentAncestors}

\* known continues pth as a string, but not at a segment boundary
StringPrefixOnly(pth, known) ==
    HasPrefix(known, pth) /\ Len(known) > Len(pth) /\ known[Len(pth) + 1] # "/"

\* C23: the loop guard answers yes for a fingerprint and a path exactly when
\* another path recorded under that fingerprint is a segment-wise ancestor or
\* descendant of the path: for every table of the run, every fingerprint in it
\* and every recorded path, under that fingerprint or another, and in the step
\* of the guard itself; never for the empty fingerprint; a path recorded alone
\* under its fingerprint is no loop; and two paths of which one is a string
\* prefix of the other without a segment boundary (/b/b and /b/bb) are no loop.
C23_LoopGuardIsSegmentWise ==
    /\ [](\A pth \in RecordedPaths :
            /\ ~checkInfiniteLoop("", pth)
            /\ \A sum \in DOMAIN contentAncestors :
                  /\ checkInfiniteLoop(sum, pth) <=> SegmentLoop(sum, pth)
                  /\ contentAncestors[sum] = {pth} => ~checkInfiniteLoop(sum, pth)
                  /\ \A known \in contentAncestors[sum] :
                        contentAncestors[sum] = {pth, known}
                        /\ StringPrefixOnly(pth, known) =>
                            /\ ~checkInfiniteLoop(sum, pth)
                            /\ ~checkInfiniteLoop(sum, known))
    /\ [][\A w \in Workers :
            wk[w].pc = "loop" /\ wk'[w] # wk[w] =>
                (wk'[w].pc = "completed" <=> SegmentLoop(wk[w].sum, UrlPath(wk[w].u)))]_vars

\* /b/b and /b/bb are recorded under one fingerprint, and the guard is asked
\* about /b/b
C23_Witness ==
    \E w \in Workers :
        /\ wk[w].pc = "loop"
        /\ \E known \in contentAncestors[wk[w].sum] :
              StringPrefixOnly(UrlPath(wk[w].u), known)

\* the URLs of 200 hits whose recursion the loop guard vetoed
LoopVetoed == {u \in DOMAIN log : log[u].verdict = "loop"}

\* C24 as stated: the ledger is consulted only for a 200 that has passed the
\* loop guard, so a URL vetoed by the loop guard is never installed as the
\* holder of its key and is not in the result set.
C24_LedgerAfterLoopGuard ==
    [](\A u \in LoopVetoed :
          /\ log[u].dedup # "holder"
          /\ normalizeOutputURL(u) \notin seenOut)

\* C24 (amended): the ledger comes first. The loop guard is asked only for a
\* 200 within the tolerance that the ledger has just made or kept the holder
\* of its key, and its step does not touch the ledger: a URL vetoed by the
\* loop guard was installed as holder, and it is in the result set until a
\* strictly shorter URL of the same key takes its place.
C24_LedgerBeforeLoopGuard ==
    /\ [](\A w \in Workers :
            wk[w].pc = "loop" =>
                /\ wk[w].code = 200 /\ wk[w].newErrorCount < maxDepth
                /\ log[wk[w].u].dedup = "holder")
    /\ [][\A w \in Workers :
            wk[w].pc = "loop" /\ wk'[w] # wk[w] => hashBest' = hashBest]_vars
    /\ [][\A w \in Workers :
            wk[w].pc = "dedup" /\ wk'[w].pc = "loop" =>
                hashBest'[keyOf(normalizeOutputURL(wk[w].u), wk[w].sum)] =
                    normalizeOutputURL(wk[w].u)]_vars
    /\ [](\A u \in LoopVetoed :
            /\ log[u].dedup = "holder"
            /\ KeyOfFound(u) \in DOMAIN hashBest
            /\ \/ hashBest[KeyOfFound(u)] = normalizeOutputURL(u)
               \/ Len(hashBest[KeyOfFound(u)]) < NormLen(u))

\* a finished run that emits a URL whose recursion the loop guard vetoed
C24_Witness ==
    /\ mainPc = "finished"
    /\ \E u \in LoopVetoed : normalizeOutputURL(u) \in seenOut

\* the lines of the output, as a set
WrittenSet == {written[k] : k \in 1..Len(written)}

\* C25: nothing is written before the scan has ended; at the end the output
\* holds exactly the holders of the ledger, no URL twice, in any order of the
\* map iteration, and every line is the normalized URL of a request that was
\* answered with a 200 outside the exclusion set.
C25_OutputIsTheHolders ==
    /\ [](mainPc # "finished" => written = <<>>)
    /\ [](mainPc = "finished" =>
            /\ WrittenSet = {hashBest[key] : key \in DOMAIN hashBest}
            /\ Len(written) = Cardinality(DOMAIN hashBest)
            /\ \A i, j \in 1..Len(written) : written[i] = written[j] => i = j
            /\ \A k \in 1..Len(written) :
                  \E u \in Found :
                      /\ normalizeOutputURL(u) = written[k]
                      /\ log[u].code \notin excluded
                      /\ gets[u] = 1)

\* a finished run that has written two holders and has absorbed a 200
C25_Witness ==
    /\ mainPc = "finished"
    /\ Len(written) >= 2
    /\ Absorbed # {}

\* main has stored the seed count (line 944)
Seeded == mainPc \notin {"precheck", "seed", "returned"}

\* C26: the completed count never exceeds the total; the total is 0 until main
\* seeds, and from then on W for the seeds plus W for every batch that was
\* reserved for enqueueing, nothing for a dropped batch; and whenever the
\* pending count is zero the completed count equals the total.
C26_CompletedAndTotal ==
    /\ [](completed <= totalTasks)
    /\ [](totalTasks = IF Seeded THEN Len(words) * (1 + Cardinality(Expanded)) ELSE 0)
    /\ [](Expanded \cap DroppedBatches = {})
    /\ [](pending = 0 => completed = totalTasks)

\* a finished run with an expanded and a dropped batch: every task is completed
C26_Witness ==
    /\ mainPc = "finished"
    /\ pending = 0
    /\ Expanded # {}
    /\ DroppedBatches # {}
    /\ completed = totalTasks
    /\ completed > Len(words)

\* -se 404, given explicitly
Explicit404 == Given(<<"4", "0", "4">>)

\* the run of the current flags and target, with the given -se
RunWith(se) ==
    [words |-> words, maxDepth |-> maxDepth, recursive |-> recursive, se |-> se,
     concurrency |-> concurrency, siteDepth |-> siteDepth, catchAll |-> catchAll,
     down |-> down]

Seeds == mainPc = "send" /\ seedIdx' # seedIdx

\* what is said of the tasks that are sent
BudgetOfSentTasks ==
    /\ [][Seeds => reqJobs'[Len(reqJobs')].errorCount = 0
                    /\ reqJobs'[Len(reqJobs')].depth = 0]_vars
    /\ [][\A w \in Workers :
            Sends(w) =>
                /\ wk[w].code # 0 /\ wk[w].code \notin excluded
                /\ reqJobs'[Len(reqJobs')].depth > 0
                /\ reqJobs'[Len(reqJobs')].errorCount =
                      IF wk[w].code = 200 THEN 0 ELSE wk[w].t.errorCount + 1
                /\ reqJobs'[Len(reqJobs')].errorCount < maxDepth]_vars

\* C28 as stated: every task in the queue or held by a worker carries an error
\* budget e with 0 <= e < tolerance; a seed task carries 0, a child sent by the
\* task of a 200 carries 0, and a child sent by the task of a non-200 hit
\* carries that task's budget plus one.
C28_BudgetBelowTolerance ==
    /\ [](\A t \in TasksAlive : 0 <= t.errorCount /\ t.errorCount < maxDepth)
    /\ BudgetOfSentTasks

\* C28 (amended): a seed task carries 0, whatever the tolerance is, so its
\* budget is below the tolerance only if the tolerance is at least 1; every
\* child task carries a budget e with 0 <= e < tolerance, 0 after a 200 and the
\* parent's budget plus one after a non-200 hit.
C28_BudgetOfEveryTask ==
    /\ [](\A t \in TasksAlive :
            /\ t.depth = 0 => t.errorCount = 0
            /\ t.depth > 0 => 0 <= t.errorCount /\ t.errorCount < maxDepth)
    /\ [](maxDepth >= 1 =>
            \A t \in TasksAlive : 0 <= t.errorCount /\ t.errorCount < maxDepth)
    /\ BudgetOfSentTasks

\* a child of a non-200 hit, with budget 1, is in the queue behind a child of a
\* 200
C28_Witness ==
    \E i, j \in 1..Len(reqJobs) :
        /\ i < j
        /\ reqJobs[i].depth > 0 /\ reqJobs[i].errorCount = 0
        /\ reqJobs[j].errorCount = 1

\* C29: when every word of the wordlist is a single path segment the loop guard
\* vetoes nothing: a worker that has passed the ledger and stands before the
\* loop guard finds no ancestor and no descendant of its path recorded under
\* its fingerprint, the guard's answer is no, and no URL of the run is ever
\* vetoed by the loop guard; every descendant with the content of an ancestor
\* was absorbed by the ledger, whose key the ancestor holds.
C29_SingleSegmentNeverLoops ==
    /\ [](SingleSegmentWords =>
            /\ LoopVetoed = {}
            /\ \A w \in Workers :
                  wk[w].pc = "loop" =>
                      /\ wk[w].code = 200 /\ log[wk[w].u].dedup = "holder"
                      /\ ~SegmentLoop(wk[w].sum, UrlPath(wk[w].u))
                      /\ ~checkInfiniteLoop(wk[w].sum, UrlPath(wk[w].u)))
    /\ [](SingleSegmentWords =>
            \A u \in DOMAIN log : \A v \in DOMAIN log :
                (/\ Ancestor(UrlPath(u), UrlPath(v))
                 /\ log[u].code = 200 /\ log[v].code = 200
                 /\ log[u].sum = log[v].sum
                 /\ log[v].dedup # "none")
                    => log[v].dedup = "absorbed" /\ log[u].dedup = "holder")

\* with single-segment words a worker stands before the loop guard while another
\* path is recorded under its fingerprint, and a descendant with the content
\* of its ancestor has been absorbed by the ledger
C29_Witness ==
    /\ SingleSegmentWords
    /\ \E w \in Workers :
          /\ wk[w].pc = "loop"
          /\ contentAncestors[wk[w].sum] # {UrlPath(wk[w].u)}
    /\ \E u \in DOMAIN log : \E v \in DOMAIN log :
          /\ Ancestor(UrlPath(u), UrlPath(v))
          /\ log[u].sum = log[v].sum /\ log[v].dedup = "absorbed"

\* the run cannot recurse: -r is off or the tolerance is not positive
NoRecursion == ~recursive \/ maxDepth <= 0

\* requests answered with a 200 that counted as hits
Hits200 == {u \in DOMAIN log : log[u].code = 200 /\ 200 \notin excluded}

ZeroToleranceEnded ==
    /\ recursive /\ maxDepth = 0
    /\ mainPc = "finished"
    /\ hits >= 1
    /\ Hits200 # {}
    /\ written = <<>>

\* the run can recurse: -r is on and the tolerance is positive
CanRecurse == recursive /\ maxDepth >= 1

\* the ledger holds, for the key of u, a URL that is not longer than u
Covered(u) ==
    \E key \in {KeyOfFound(u)} :
        /\ key \in DOMAIN hashBest
        /\ Len(hashBest[key]) <= NormLen(u)

\* C31: with -r and a tolerance of at least 1, every URL that was answered with
\* a 200 outside the exclusion set is covered by the result set: once its
\* worker has left the ledger, and so when the run has ended, the ledger holds
\* for its (branch, fingerprint) key a URL that is not longer, and that URL is
\* written; this is so whether the URL was absorbed, vetoed by the loop guard
\* or by the precheck, dropped or expanded.
C31_Every200IsCovered ==
    /\ [](CanRecurse =>
            \A u \in Hits200 :
                \/ \E w \in Workers : wk[w].u = u /\ wk[w].pc \in {"record", "dedup"}
                \/ log[u].dedup # "none" /\ Covered(u))
    /\ [](CanRecurse /\ mainPc = "finished" =>
            \A u \in Hits200 :
                /\ Covered(u)
                /\ hashBest[KeyOfFound(u)] \in WrittenSet)

\* a run with -r has ended with a URL absorbed by a strictly shorter holder,
\* and with a holder whose recursion was vetoed or dropped
C31_Witness ==
    /\ CanRecurse
    /\ mainPc = "finished"
    /\ \E u \in Hits200 :
          /\ log[u].dedup = "absorbed"
          /\ Len(hashBest[KeyOfFound(u)]) < NormLen(u)
    /\ \E u \in Hits200 :
          /\ log[u].dedup = "holder"
          /\ log[u].verdict \in {"loop", "reflective", "dropped"}

\* the 200s whose recursion was stopped after the ledger: by the loop guard, by
\* the precheck or by the backpressure check
Stopped == {u \in Found : log[u].verdict \in {"loop", "reflective", "dropped"}}

\* the worker takes its step of the loop guard, the precheck or the backpressure check
VetoOrDropStep(w) ==
    /\ wk[w].pc \in {"loop", "precheck", "backpressure"}
    /\ wk'[w] # wk[w]

\* the worker takes its ledger step with a URL that is not strictly shorter than
\* the holder of its key
LaterNotShorter(w) ==
    /\ wk[w].pc = "dedup"
    /\ wk'[w] # wk[w]
    /\ \E key \in {keyOf(normalizeOutputURL(wk[w].u), wk[w].sum)} :
          /\ key \in DOMAIN hashBest
          /\ Len(normalizeOutputURL(wk[w].u)) >= Len(hashBest[key])

\* the vetoes and the drop leave the ledger as it is, and a later URL of a held
\* key that is not strictly shorter is absorbed
LedgerNotRolledBack ==
    /\ [][\A w \in Workers : VetoOrDropStep(w) => hashBest' = hashBest]_vars
    /\ [][\A w \in Workers :
            LaterNotShorter(w) =>
                /\ hashBest' = hashBest
                /\ wk'[w].pc = "completed"
                /\ log'[wk[w].u].dedup = "absorbed"]_vars

\* C32 as stated: a veto or a drop does not roll back the ledger, and the vetoed
\* or dropped URL stays the holder of its key and is written at the end.
C32_StoppedStaysHolder ==
    /\ LedgerNotRolledBack
    /\ [](\A u \in Stopped :
            /\ KeyOfFound(u) \in DOMAIN hashBest
            /\ hashBest[KeyOfFound(u)] = normalizeOutputURL(u))
    /\ [](mainPc = "finished" =>
            \A u \in Stopped : normalizeOutputURL(u) \in WrittenSet)

\* C32 (amended): a veto or a drop does not roll back the ledger: the vetoed or
\* dropped URL was the holder of its key when it was stopped and stays the
\* holder until a strictly shorter URL of the same key takes the key, every
\* later URL of the key that is not strictly shorter is absorbed, and at the
\* end the holder of the key is written: the stopped URL itself if no strictly
\* shorter URL came.
C32_StoppedHolderNotRolledBack ==
    /\ LedgerNotRolledBack
    /\ [](\A u \in Stopped :
            /\ log[u].dedup = "holder"
            /\ KeyOfFound(u) \in DOMAIN hashBest
            /\ \/ hashBest[KeyOfFound(u)] = normalizeOutputURL(u)
               \/ Len(hashBest[KeyOfFound(u)]) < NormLen(u))
    /\ [][\A u \in Stopped :
            hashBest[KeyOfFound(u)] = normalizeOutputURL(u) =>
                \/ hashBest'[KeyOfFound(u)] = normalizeOutputURL(u)
                \/ Len(hashBest'[KeyOfFound(u)]) < NormLen(u)]_vars
    /\ [](mainPc = "finished" =>
            \A u \in Stopped :
                /\ hashBest[KeyOfFound(u)] \in WrittenSet
                /\ hashBest[KeyOfFound(u)] = normalizeOutputURL(u)
                      => normalizeOutputURL(u) \in WrittenSet)

\* the run has ended; a stopped URL is still the holder of its key and is
\* written, a later URL of the key that is not shorter was absorbed, and no
\* URL of the key was ever expanded
C32_Witness ==
    /\ mainPc = "finished"
    /\ \E u \in Stopped :
          /\ hashBest[KeyOfFound(u)] = normalizeOutputURL(u)
          /\ normalizeOutputURL(u) \in WrittenSet
          /\ \E v \in Absorbed : SameKey(u, v) /\ NormLen(v) >= NormLen(u)
          /\ \A v \in Found : SameKey(u, v) => v \notin Expanded

\* main or a worker takes a step of a precheck: a probe of the root, the
\* verdict on the root, or a worker's precheck of the next prefix
ProbeStep ==
    \/ mainPc = "precheck" /\ (testIdx' # testIdx \/ mainPc' # mainPc)
    \/ \E w \in Workers : wk[w].pc = "precheck" /\ wk'[w] # wk[w]

\* the URLs the prechecks of the run have probed so far
Probed ==
    {testURLs(base, <<>>)[k] : k \in 1..(testIdx - 1)}
        \cup UNION {{testURLs(base, prefix)[k] : k \in 1..Len(testWords)} :
                        prefix \in DOMAIN prechecks \ {<<>>}}

\* the URL of the task whose next prefix is the prefix
ParentURL(prefix) == buildURL(base, <<>>, prefix, FALSE)

\* C33: the probes of a precheck change no shared scan state: a step of a
\* precheck leaves the Global Seen Set, the hit counter, the ledger, the
\* ancestry table, pending and total as they are, so the seen set holds exactly
\* the URLs that tasks have requested and a probed URL can still be requested
\* by a task; and the precheck of a prefix has returned before the
\* backpressure check of its batch, also for a batch that is dropped.
C33_ProbesChangeNoScanState ==
    /\ [][ProbeStep =>
            /\ seen' = seen /\ hits' = hits
            /\ hashBest' = hashBest /\ contentAncestors' = contentAncestors
            /\ pending' = pending /\ totalTasks' = totalTasks
            /\ gets' = gets]_vars
    /\ [](seen = DOMAIN gets)
    /\ [](\A u \in DOMAIN gets : gets[u] = 1)
    /\ [](\A w \in Workers :
            wk[w].pc \in {"backpressure", "send"} =>
                /\ PrecheckDone(nextPrefix(wk[w].t))
                /\ ~Vetoed(nextPrefix(wk[w].t))
                /\ ParentURL(nextPrefix(wk[w].t)) = wk[w].u)
    /\ [](\A u \in DroppedBatches :
            \E prefix \in DOMAIN prechecks \ {<<>>} :
                ParentURL(prefix) = u /\ ~Vetoed(prefix))

\* a nonce URL of the root precheck was also requested by a task and counted as
\* a hit, the prefix of that task was probed, and its batch was then dropped
C33_Witness ==
    \E u \in Probed \cap DOMAIN gets :
        /\ u \in seen
        /\ u \in DOMAIN log
        /\ hits >= 1
        /\ u \in DroppedBatches
        /\ \E prefix \in DOMAIN prechecks \ {<<>>} : ParentURL(prefix) = u

\* a nonce URL of a worker's precheck was then requested by a child task
ProbedThenRequestedBelow ==
    \E prefix \in DOMAIN prechecks \ {<<>>} :
        testURLs(base, prefix)[1] \in DOMAIN gets

====
